---------------------------- MODULE Spec2Model ----------------------------
(***************************************************************************)
(* A model of the MkDocs-admonition plugin: the header parser, the two     *)
(* content extractors, the markdown-it block rule with its renderer, the   *)
(* DOM container builder and the live-preview range computation.           *)
(*                                                                         *)
(* Text is modelled as sequences of characters; a character is a string    *)
(* of length one (or a name for a non-printing character).  A line buffer  *)
(* is a sequence of lines.  JavaScript indices are 0-based and are kept    *)
(* 0-based in every operator that mirrors a JavaScript call.               *)
(***************************************************************************)
EXTENDS Integers, Sequences, FiniteSets, TLC

VARIABLES
    hdrIn,      \* header probe: the raw line handed to a call site, in parts
    hdrOut,     \* header probe: what parseHeader(rawLine.trim()) returned
    exIn,       \* extractor probe: [lines, startLine, options]
    exOut,      \* extractor probe: what extractContentFromLines returned
    lpDoc,      \* live preview: state.doc, as its lines
    lpSel,      \* live preview: state.selection.ranges
    lpOpts,     \* live preview: getOptions()
    lpPc,       \* live preview: position of buildDecorations
    lpLine,     \* live preview: the local variable line of buildDecorations
    lpBuilder,  \* live preview: the ranges added to the RangeSetBuilder
    lpBlocks,   \* live preview: history of the blocks the pass recognized
    mdIn,       \* markdown-it: the source text and the rule call's arguments
    mdRuleOut,  \* markdown-it: outcome of one call of the block rule
    mdRenderOut,\* markdown-it: outcome of md.render on the source text
    rnIn,       \* renderers: the AdmonitionMeta to render
    rnHtml,     \* renderers: the container of the mkdocs_admonition render rule
    rnDom,      \* renderers: the container of buildCalloutContainer
    cmpIn,      \* both extractors: the line buffer and the options
    cmpLines,   \* both extractors: outcome of extractContentFromLines
    cmpMd,      \* both extractors: outcome of extractContent
    edDoc,      \* editor: state.doc, as its lines
    edSel,      \* editor: state.selection.ranges
    edOpts,     \* editor: what getOptions() returns
    edField,    \* editor: the DecorationSet the state field holds
    edLast      \* editor: the kind of the last transaction

hdrVars == << hdrIn, hdrOut >>
exVars  == << exIn, exOut >>
lpVars  == << lpDoc, lpSel, lpOpts, lpPc, lpLine, lpBuilder, lpBlocks >>
mdVars  == << mdIn, mdRuleOut, mdRenderOut >>
rnVars  == << rnIn, rnHtml, rnDom >>
cmpVars == << cmpIn, cmpLines, cmpMd >>
edVars  == << edDoc, edSel, edOpts, edField, edLast >>
vars    == << hdrVars, exVars, lpVars, mdVars, rnVars, cmpVars, edVars >>

\* a component that is not exercised by a specification stays idle
HeaderIdle  == hdrIn = << >> /\ hdrOut = << >>
ExtractIdle == exIn = << >> /\ exOut = << >>
LiveIdle    == /\ lpDoc = << >> /\ lpSel = << >> /\ lpOpts = << >> /\ lpPc = "idle"
               /\ lpLine = 0 /\ lpBuilder = << >> /\ lpBlocks = << >>
MdIdle      == mdIn = << >> /\ mdRuleOut = << >> /\ mdRenderOut = << >>
RenderIdle  == rnIn = << >> /\ rnHtml = << >> /\ rnDom = << >>
CompareIdle == cmpIn = << >> /\ cmpLines = << >> /\ cmpMd = << >>
EditorIdle  == /\ edDoc = << >> /\ edSel = << >> /\ edOpts = << >>
               /\ edField = << >> /\ edLast = "idle"

(***************************************************************************)
(* Characters                                                              *)
(***************************************************************************)
SP   == " "
TAB  == "\t"
CR   == "\r"
NBSP == "nbsp"          \* U+00A0, white space for JavaScript, not for markdown-it
DQ   == "\""
SQ   == "'"

LowerSeq == << "a","b","c","d","e","f","g","h","i","j","k","l","m",
               "n","o","p","q","r","s","t","u","v","w","x","y","z" >>
UpperSeq == << "A","B","C","D","E","F","G","H","I","J","K","L","M",
               "N","O","P","Q","R","S","T","U","V","W","X","Y","Z" >>
Range(s) == { s[i] : i \in 1..Len(s) }
Lower == Range(LowerSeq)
Upper == Range(UpperSeq)
Digit == { "0","1","2","3","4","5","6","7","8","9" }

\* The regular expression classes of parseHeader.
IsLetter(c)   == c \in Lower \cup Upper                 \* [A-Za-z]
TypeChars     == Lower \cup Upper \cup Digit \cup {"_", "-"}    \* [\w-]
IsTypeChar(c) == c \in TypeChars
\* JavaScript white space (\s and String.prototype.trim) and line terminators.
LineTerminator == { CR }
WhiteSpace     == { SP, TAB, NBSP } \cup LineTerminator
IsDot(c)       == c \notin LineTerminator               \* the regular expression "."

(***************************************************************************)
(* JavaScript string operations, 0-based                                   *)
(***************************************************************************)
Min(a, b) == IF a <= b THEN a ELSE b
Max(a, b) == IF a >= b THEN a ELSE b

\* s.slice(a, b) for 0 <= a
Slice(s, a, b) == SubSeq(s, a + 1, Min(b, Len(s)))
\* s.slice(a)
SliceFrom(s, a) == SubSeq(s, a + 1, Len(s))
\* s.startsWith(p)
StartsWith(s, p) == Len(s) >= Len(p) /\ SubSeq(s, 1, Len(p)) = p
\* s.indexOf(c, from): the first index >= from holding c, or -1
IndexOf(s, c, from) ==
    LET hits == { i \in from..(Len(s) - 1) : s[i + 1] = c }
    IN  IF hits = {} THEN -1 ELSE CHOOSE i \in hits : \A j \in hits : i <= j
\* the length of the longest run of characters of the set cs that starts at
\* 0-based index from
RunLen(s, from, cs) ==
    CHOOSE n \in 0..Max(0, Len(s) - from) :
        /\ \A i \in 1..n : s[from + i] \in cs
        /\ (from + n < Len(s) => s[from + n + 1] \notin cs)
IsWhite(c) == c \in WhiteSpace
\* s.trim()
Trim(s) ==
    LET lead  == RunLen(s, 0, WhiteSpace)
        trail == CHOOSE n \in 0..Len(s) :
                    /\ \A i \in 1..n : IsWhite(s[Len(s) - i + 1])
                    /\ (n < Len(s) => ~IsWhite(s[Len(s) - n]))
    IN  IF lead = Len(s) THEN << >> ELSE SubSeq(s, lead + 1, Len(s) - trail)
\* c.toLowerCase() on one character, s.toLowerCase() on a string
LowerChar(c) ==
    IF c \in Upper THEN LowerSeq[CHOOSE i \in 1..26 : UpperSeq[i] = c] ELSE c
ToLowerCase(s) == [i \in 1..Len(s) |-> LowerChar(s[i])]

(***************************************************************************)
(* The header parser                                                       *)
(***************************************************************************)
VALID_TYPES == {
    <<"n","o","t","e">>,
    <<"i","n","f","o">>,
    <<"t","i","p">>,
    <<"w","a","r","n","i","n","g">>,
    <<"i","m","p","o","r","t","a","n","t">>,
    <<"c","a","u","t","i","o","n">>,
    <<"d","a","n","g","e","r">>,
    <<"b","u","g">>,
    <<"e","x","a","m","p","l","e">>,
    <<"q","u","o","t","e">>,
    <<"f","a","i","l","u","r","e">>,
    <<"s","u","c","c","e","s","s">>,
    <<"q","u","e","s","t","i","o","n">> }

\* string | null
Null   == [isNull |-> TRUE,  text |-> << >>]
Str(s) == [isNull |-> FALSE, text |-> s]
\* JavaScript truthiness of a string | null value
Truthy(v) == ~v.isNull /\ v.text # << >>

\* index of the first character of set cs at or after from, or -1
IndexOfAny(s, cs, from) ==
    LET hits == { i \in from..(Len(s) - 1) : s[i + 1] \in cs }
    IN  IF hits = {} THEN -1 ELSE CHOOSE i \in hits : \A j \in hits : i <= j
parseTitleAnyQuote(raw) ==
    LET trimmed == Trim(raw)
    IN  IF trimmed = << >> THEN Null
        ELSE LET first == trimmed[1]
             IN  IF first = DQ \/ first = SQ
                 THEN LET end == IndexOfAny(trimmed, {DQ, SQ}, 1)
                      IN  IF end > 0 THEN Str(Slice(trimmed, 1, end))
                                     ELSE Str(SliceFrom(trimmed, 1))
                 ELSE Str(trimmed)
parseTitle(raw) ==
    LET trimmed == Trim(raw)
    IN  IF trimmed = << >> THEN Null
        ELSE LET first == trimmed[1]
             IN  IF first = DQ \/ first = SQ
                 THEN LET end == IndexOf(trimmed, first, 1)
                      IN  IF end > 0 THEN Str(Slice(trimmed, 1, end))
                                     ELSE Str(SliceFrom(trimmed, 1))
                 ELSE Str(trimmed)

BANG3  == <<"!","!","!">>
QUES3  == <<"?","?","?">>
QUES3P == <<"?","?","?","+">>

\* line.match(/^(!!!|\?\?\?\+?)\s+([A-Za-z][\w-]*)(.*)?$/): every quantifier
\* of the expression is greedy and no shorter choice can make a later part
\* match, so the first (greedy) attempt decides the match.
NoMatch == [matched |-> FALSE]
MatchHeader(line) ==
    LET marker == IF StartsWith(line, BANG3) THEN BANG3
                  ELSE IF StartsWith(line, QUES3P) THEN QUES3P
                  ELSE IF StartsWith(line, QUES3) THEN QUES3
                  ELSE << >>
        m      == Len(marker)
        ws     == RunLen(line, m, WhiteSpace)
        t0     == m + ws
        tlen   == RunLen(line, t0, TypeChars)
        rest   == SliceFrom(line, t0 + tlen)
    IN  IF /\ m > 0
           /\ ws >= 1
           /\ t0 < Len(line)
           /\ IsLetter(line[t0 + 1])
           /\ \A i \in 1..Len(rest) : IsDot(rest[i])
        THEN [matched |-> TRUE, g1 |-> marker,
              g2 |-> Slice(line, t0, t0 + tlen), g3 |-> rest]
        ELSE NoMatch

NullMeta == [isNull |-> TRUE]
DefaultType == <<"n","o","t","e">>
\* VALID_TYPES.has(rawType) ? rawType : "note"
calloutTypeOfNoFallback(rawType) == rawType
calloutTypeOf(rawType) ==
    IF rawType \in VALID_TYPES THEN rawType ELSE DefaultType
\* marker.startsWith("???")
collapsibleOf(marker) == StartsWith(marker, QUES3)
\* marker === "???+" || marker === "!!!"
openOfPlusOnly(marker) == marker = QUES3P
openOf(marker) == marker = QUES3P \/ marker = BANG3

parseHeader(line) ==
    LET match == MatchHeader(line)
    IN  IF ~match.matched THEN NullMeta
        ELSE LET marker  == match.g1
                 rawType == ToLowerCase(match.g2)
                 title   == parseTitle(match.g3)
             IN  [isNull      |-> FALSE,
                  calloutType |-> calloutTypeOf(rawType),
                  title       |-> title,
                  collapsible |-> collapsibleOf(marker),
                  open        |-> openOf(marker)]

(***************************************************************************)
(* The line-based content extractor                                        *)
(***************************************************************************)
SP4 == <<SP, SP, SP, SP>>

\* options.endOnDoubleBlank && emptyRun >= 2
DoubleBlankNever(endOnDoubleBlank, emptyRun) == FALSE
DoubleBlankStop(endOnDoubleBlank, emptyRun) ==
    endOnDoubleBlank /\ emptyRun >= 2

\* if (!sawIndented) return null
NullBlock == [isNull |-> TRUE]
ExtractResultAlways(contentLines, line, sawIndented) ==
    [isNull |-> FALSE, contentLines |-> contentLines, endLine |-> line]
ExtractResult(contentLines, line, sawIndented) ==
    IF ~sawIndented THEN NullBlock
    ELSE [isNull |-> FALSE, contentLines |-> contentLines, endLine |-> line]

\* contentLines.push(text.slice(4))
StripSpacesKeep(text) == text
StripSpaces(text) == SliceFrom(text, 4)

\* the while loop of extractContentFromLines, one iteration per unfolding;
\* line is the 0-based index of the line under examination
RECURSIVE ExtractLoop(_, _, _, _, _, _)
ExtractLoop(lines, line, emptyRun, sawIndented, contentLines, endOnDoubleBlank) ==
    IF ~(line < Len(lines))
    THEN ExtractResult(contentLines, line, sawIndented)
    ELSE LET text == lines[line + 1]
         IN  IF text = << >>
             THEN IF DoubleBlankStop(endOnDoubleBlank, emptyRun + 1)
                  THEN ExtractResult(contentLines, line, sawIndented)
                  ELSE ExtractLoop(lines, line + 1, emptyRun + 1, sawIndented,
                                   Append(contentLines, << >>), endOnDoubleBlank)
             ELSE IF StartsWith(text, <<TAB>>)
             THEN ExtractLoop(lines, line + 1, 0, TRUE,
                              Append(contentLines, SliceFrom(text, 1)), endOnDoubleBlank)
             ELSE IF StartsWith(text, SP4)
             THEN ExtractLoop(lines, line + 1, 0, TRUE,
                              Append(contentLines, StripSpaces(text)), endOnDoubleBlank)
             ELSE ExtractResult(contentLines, line, sawIndented)

extractContentFromLines(lines, startLine, options) ==
    ExtractLoop(lines, startLine, 0, FALSE, << >>, options.endOnDoubleBlank)

(***************************************************************************)
(* Header probe: a call site hands one raw line, trimmed, to parseHeader   *)
(* (part_002 line 107, main.ts lines 125, 219 and 244).                    *)
(***************************************************************************)
MaxTitleLen == 4

Markers  == { BANG3, QUES3, QUES3P }
Prefixes == Markers \cup { << >>, <<"!","!">>, <<"?","?">>, <<"!","!","!","!">>,
                           <<"?","?","?","+","+">>, <<"?","?","+">>,
                           <<"!","?","!">>, <<">",">",">">> }
Gaps     == { << >>, <<SP>>, <<TAB>>, <<SP,SP>>, <<NBSP>> }
UpperChar(c) ==
    IF c \in Lower THEN UpperSeq[CHOOSE i \in 1..26 : LowerSeq[i] = c] ELSE c
ToUpperCase(s) == [i \in 1..Len(s) |-> UpperChar(s[i])]
Capitalize(s)  == [i \in 1..Len(s) |-> IF i = 1 THEN UpperChar(s[i]) ELSE s[i]]
UnknownTypes == { <<"b","o","g","u","s">>, <<"x">>, <<"N","o","t","e","-","x">>,
                  <<"n","0","t","e">>, <<"a","_","b">>, <<"n","o","t","e","s">>,
                  <<"T","I","P","S">> }
BadTypes     == { << >>, <<"1","a">>, <<"_","a">>, <<"-","a">>, <<"?">> }
TypeTokens   == VALID_TYPES \cup { ToUpperCase(t) : t \in VALID_TYPES }
                            \cup { Capitalize(t) : t \in VALID_TYPES }
                            \cup UnknownTypes \cup BadTypes
FewRests == { << >>, <<SP>>, <<SP,DQ,"H","i",DQ>>, <<SP,"H","i">>, <<"x">>,
              <<":",SP,"t">>, <<SP,"a",CR,"b">>, <<DQ,"H","i",DQ,SP>> }
TitleAlphabet == { "a", SP, DQ, SQ }
SeqsUpTo(S, n) == UNION { [1..k -> S] : k \in 0..n }
TitleRegions == { lead \o body : lead \in { << >>, <<SP>> },
                                 body \in SeqsUpTo(TitleAlphabet, MaxTitleLen) }
                \cup { <<SP, q>> \o t \o <<q>> :
                         q \in {DQ, SQ},
                         t \in SeqsUpTo(TitleAlphabet \ {DQ, SQ}, MaxTitleLen) }

HeaderInputs ==
    [padL : { << >>, <<SP,SP>> }, pre : Prefixes, gap : Gaps,
     type : TypeTokens, rest : FewRests]
    \cup
    [padL : { << >> }, pre : Markers, gap : { <<SP>> },
     type : { <<"n","o","t","e">>, <<"T","i","p">> }, rest : TitleRegions]

RawLine(in) == in.padL \o in.pre \o in.gap \o in.type \o in.rest

Pending == [pending |-> TRUE]

InitHeader ==
    /\ hdrIn \in HeaderInputs
    /\ hdrOut = Pending
    /\ ExtractIdle /\ LiveIdle /\ MdIdle /\ RenderIdle /\ CompareIdle /\ EditorIdle

\* const meta = parseHeader(rawLine.trim())
ParseHeaderCall ==
    /\ hdrOut = Pending
    /\ hdrOut' = parseHeader(Trim(RawLine(hdrIn)))
    /\ UNCHANGED << hdrIn, exVars, lpVars, mdVars, rnVars, cmpVars, edVars >>

NextHeader == ParseHeaderCall

SpecHeader == InitHeader /\ [][NextHeader]_vars

HeaderParsed   == hdrOut # Pending
HeaderAccepted == hdrOut # Pending /\ ~hdrOut.isNull
\* the line as the call site hands it to parseHeader
HeaderLine == Trim(RawLine(hdrIn))
\* the input is a marker, white space and a letter-initial type token, and
\* the title region holds no line terminator
WellFormedHeader ==
    /\ hdrIn.pre \in Markers
    /\ hdrIn.gap # << >>
    /\ hdrIn.type # << >>
    /\ IsLetter(hdrIn.type[1])
    /\ \A i \in 1..Len(hdrIn.type) : IsTypeChar(hdrIn.type[i])
    /\ \A i \in 1..Len(hdrIn.rest) : hdrIn.rest[i] \notin LineTerminator
\* the type token of a well-formed input: the type part and the type
\* characters that directly follow it
InputToken ==
    hdrIn.type \o SubSeq(hdrIn.rest, 1, RunLen(hdrIn.rest, 0, TypeChars))

\* C1: every accepted line has a whitelisted calloutType; a well-formed header
\* is accepted whatever its type token, with the lowercased token when that is
\* whitelisted and "note" otherwise.
C1_TypeWhitelist ==
    /\ HeaderAccepted => hdrOut.calloutType \in VALID_TYPES
    /\ (HeaderParsed /\ WellFormedHeader) =>
          /\ ~hdrOut.isNull
          /\ ToLowerCase(InputToken) \in VALID_TYPES
                => hdrOut.calloutType = ToLowerCase(InputToken)
          /\ ToLowerCase(InputToken) \notin VALID_TYPES
                => hdrOut.calloutType = DefaultType
C1_Witness ==
    /\ HeaderAccepted
    /\ hdrIn.type = <<"B","U","G">>
    /\ hdrIn.rest = <<SP,"H","i">>
    /\ hdrOut.calloutType = <<"b","u","g">>
C1_WitnessFallback ==
    /\ HeaderAccepted
    /\ hdrIn.type = <<"b","o","g","u","s">>
    /\ hdrOut.calloutType = DefaultType

\* the line starts with marker mk, then white space, then a letter
HeaderShape(line, mk) ==
    /\ StartsWith(line, mk)
    /\ \E k \in 1..Len(line) :
          /\ Len(mk) + k < Len(line)
          /\ \A i \in 1..k : line[Len(mk) + i] \in WhiteSpace
          /\ IsLetter(line[Len(mk) + k + 1])

\* C2: the marker alone determines the flags of an accepted header, and a line
\* that is not a marker, white space and a letter-initial token is rejected.
C2_MarkerFlags ==
    /\ HeaderAccepted =>
          /\ HeaderShape(HeaderLine, BANG3)
                => (~hdrOut.collapsible /\ hdrOut.open)
          /\ HeaderShape(HeaderLine, QUES3)
                => (hdrOut.collapsible /\ ~hdrOut.open)
          /\ HeaderShape(HeaderLine, QUES3P)
                => (hdrOut.collapsible /\ hdrOut.open)
    /\ (HeaderParsed /\ \A mk \in Markers : ~HeaderShape(HeaderLine, mk))
          => hdrOut.isNull
C2_Witness ==
    /\ HeaderAccepted
    /\ hdrIn.pre = BANG3
    /\ hdrIn.padL = <<SP,SP>>
    /\ ~hdrOut.collapsible /\ hdrOut.open
C2_WitnessRejected ==
    /\ HeaderParsed
    /\ hdrIn.pre = <<"?","?","?","+","+">>
    /\ hdrIn.type = <<"n","o","t","e">>
    /\ hdrOut.isNull

\* the title region of a well-formed input, trimmed
TitleRegion == Trim(SliceFrom(hdrIn.rest, RunLen(hdrIn.rest, 0, TypeChars)))
\* t is the text after the opening quote of region r up to the next q, or to
\* the end when there is no later q
QuotedText(r, q, t) ==
    \E n \in 0..(Len(r) - 1) :
        /\ t = SubSeq(r, 2, n + 1)
        /\ \A i \in 1..Len(t) : t[i] # q
        /\ (n + 2 <= Len(r) => r[n + 2] = q)

\* C3: a title region that starts with a quote q yields the text between that
\* quote and the next q (everything after the quote when there is none), so
\* a quoted title without quote characters comes back unchanged.
C3_QuotedTitle ==
    (HeaderParsed /\ WellFormedHeader) =>
        /\ \A q \in {DQ, SQ} :
              (TitleRegion # << >> /\ TitleRegion[1] = q) =>
                  /\ ~hdrOut.isNull
                  /\ ~hdrOut.title.isNull
                  /\ QuotedText(TitleRegion, q, hdrOut.title.text)
        /\ \A q \in {DQ, SQ} : \A t \in SeqsUpTo(TitleAlphabet \ {DQ, SQ}, MaxTitleLen) :
              hdrIn.rest = <<SP, q>> \o t \o <<q>>
                  => (~hdrOut.isNull /\ hdrOut.title = Str(t))
C3_Witness ==
    /\ HeaderAccepted
    /\ hdrIn.rest = <<SP, DQ, SQ, DQ, "a">>
    /\ hdrOut.title = Str(<<SQ>>)
C3_WitnessUnclosed ==
    /\ HeaderAccepted
    /\ hdrIn.rest = <<SP, SQ, "a", DQ, "a">>
    /\ hdrOut.title = Str(<<"a", DQ, "a">>)
C3_WitnessRoundTrip ==
    /\ HeaderAccepted
    /\ hdrIn.rest = <<SP, DQ, SP, "a", "a", SP, DQ>>
    /\ hdrOut.title = Str(<<SP, "a", "a", SP>>)


(***************************************************************************)
(* Extractor probe: a caller that found a header at line startLine - 1     *)
(* hands the line buffer to extractContentFromLines.                       *)
(***************************************************************************)
MaxExLines == 4

NoteHeader == BANG3 \o <<SP, "n","o","t","e">>
ExLineKinds == {
    << >>,                      \* blank
    SP4 \o <<"x">>,             \* four spaces
    <<TAB, "x">>,               \* one tab
    <<"x">>,                    \* not indented
    <<SP, SP, "x">>,            \* two spaces
    <<SP, SP>>,                 \* white space only
    SP4 \o <<SP, "x">>,         \* five spaces
    <<SP, TAB, "x">> }          \* a space and a tab
ExBuffers == { <<NoteHeader>> \o body : body \in SeqsUpTo(ExLineKinds, MaxExLines) }
ExtractInputs ==
    [lines : ExBuffers, startLine : {1, 2}, options : [endOnDoubleBlank : BOOLEAN]]

InitExtract ==
    /\ HeaderIdle /\ LiveIdle /\ MdIdle /\ RenderIdle /\ CompareIdle /\ EditorIdle
    /\ exIn \in ExtractInputs
    /\ exOut = Pending

\* const extracted = extractContentFromLines(lines, line + 1, options)
ExtractCall ==
    /\ exOut = Pending
    /\ exOut' = extractContentFromLines(exIn.lines, exIn.startLine, exIn.options)
    /\ UNCHANGED << exIn, hdrVars, lpVars, mdVars, rnVars, cmpVars, edVars >>

NextExtract == ExtractCall

SpecExtract == InitExtract /\ [][NextExtract]_vars

Extracted == exOut # Pending
\* 0-based access to the probe's line buffer
ExLine(i)     == exIn.lines[i + 1]
ExIsBlank(i)  == ExLine(i) = << >>
ExIsIndented(i) == StartsWith(ExLine(i), <<TAB>>) \/ StartsWith(ExLine(i), SP4)
ExStripped(i) ==
    IF StartsWith(ExLine(i), <<TAB>>) THEN SubSeq(ExLine(i), 2, Len(ExLine(i)))
    ELSE SubSeq(ExLine(i), 5, Len(ExLine(i)))
\* lines startLine..k-1 are indented content, with single blank lines only
\* between indented lines, and line k is blank
ContentThenBlank(k) ==
    /\ exIn.startLine < k
    /\ k < Len(exIn.lines)
    /\ ExIsIndented(exIn.startLine)
    /\ ExIsIndented(k - 1)
    /\ \A i \in exIn.startLine..(k - 1) : ExIsIndented(i) \/ ExIsBlank(i)
    /\ \A i \in exIn.startLine..(k - 2) : ~(ExIsBlank(i) /\ ExIsBlank(i + 1))
    /\ ExIsBlank(k)

\* with endOnDoubleBlank, one blank line between indented lines does not end
\* the block
C4_SingleBlankContinues ==
    \A k \in 1..MaxExLines :
        (/\ Extracted
         /\ exIn.options.endOnDoubleBlank
         /\ ContentThenBlank(k)
         /\ k + 1 < Len(exIn.lines)
         /\ ExIsIndented(k + 1))
        => /\ ~exOut.isNull
           /\ exOut.endLine >= k + 2
           /\ \A i \in exIn.startLine..(k + 1) :
                 exOut.contentLines[i - exIn.startLine + 1]
                    = IF ExIsBlank(i) THEN << >> ELSE ExStripped(i)

\* C4 as stated: ... and on two consecutive blank lines the block ends before
\* the first of them (endLine is its index, no blank line is in contentLines).
C4_EndsBeforeFirstBlank ==
    /\ C4_SingleBlankContinues
    /\ \A k \in 1..MaxExLines :
        (/\ Extracted
         /\ exIn.options.endOnDoubleBlank
         /\ ContentThenBlank(k)
         /\ k + 1 < Len(exIn.lines)
         /\ ExIsBlank(k + 1))
        => /\ ~exOut.isNull
           /\ exOut.endLine = k
           /\ Len(exOut.contentLines) = k - exIn.startLine

\* C4, amended: with endOnDoubleBlank, one blank line between indented lines
\* does not end the block; on two consecutive blank lines the block ends after
\* the first of them: the first blank line is the last entry of contentLines,
\* the second is not consumed and endLine is the index of the second.
C4_EndsAfterFirstBlank ==
    /\ C4_SingleBlankContinues
    /\ \A k \in 1..MaxExLines :
        (/\ Extracted
         /\ exIn.options.endOnDoubleBlank
         /\ ContentThenBlank(k)
         /\ k + 1 < Len(exIn.lines)
         /\ ExIsBlank(k + 1))
        => /\ ~exOut.isNull
           /\ exOut.endLine = k + 1
           /\ Len(exOut.contentLines) = k + 1 - exIn.startLine
           /\ exOut.contentLines[Len(exOut.contentLines)] = << >>
C4_Witness ==
    /\ Extracted
    /\ exIn.options.endOnDoubleBlank
    /\ exIn.startLine = 1
    /\ exIn.lines = << NoteHeader, SP4 \o <<"x">>, << >>, << >>, <<TAB, "x">> >>
    /\ exOut = [isNull |-> FALSE, contentLines |-> << <<"x">>, << >> >>, endLine |-> 3]
C4_WitnessSingleBlank ==
    /\ Extracted
    /\ exIn.options.endOnDoubleBlank
    /\ exIn.startLine = 1
    /\ exIn.lines = << NoteHeader, SP4 \o <<"x">>, << >>, <<TAB, "x">> >>
    /\ exOut = [isNull |-> FALSE,
                contentLines |-> << <<"x">>, << >>, <<"x">> >>, endLine |-> 4]


(***************************************************************************)
(* The live range computer (buildDecorations)                              *)
(***************************************************************************)
LF == "\n"

\* lines.join("\n")
RECURSIVE JoinLines(_)
JoinLines(lines) ==
    IF lines = << >> THEN << >>
    ELSE IF Len(lines) = 1 THEN lines[1]
    ELSE lines[1] \o <<LF>> \o JoinLines(Tail(lines))

\* doc.line(n).from and doc.line(n).to, n counted from 1: every line before
\* line n takes its length and one line break
RECURSIVE DocLineFrom(_, _)
DocLineFrom(lines, n) ==
    IF n <= 1 THEN 0 ELSE DocLineFrom(lines, n - 1) + Len(lines[n - 1]) + 1
DocLineTo(lines, n) == DocLineFrom(lines, n) + Len(lines[n])

selectionIntersectsStrict(ranges, from, to) ==
    \E i \in 1..Len(ranges) : ranges[i].from < to /\ ranges[i].to > from
selectionIntersects(ranges, from, to) ==
    \E i \in 1..Len(ranges) : ranges[i].from <= to /\ ranges[i].to >= from

\* line = extracted.endLine
ResumeNextLine(line, endLine) == line + 1
ResumeLine(line, endLine) == endLine

\* one iteration of the while loop of buildDecorations at 0-based line:
\* what it found, the range it would add and where the scan goes on
ScanStep(lines, ranges, options, line) ==
    LET rawLine == lines[line + 1]
        meta    == parseHeader(Trim(rawLine))
    IN  IF meta.isNull
        THEN [kind |-> "noHeader", next |-> line + 1]
        ELSE LET extracted == extractContentFromLines(lines, line + 1, options)
             IN  IF extracted.isNull
                 THEN [kind |-> "noContent", next |-> line + 1]
                 ELSE LET endLineIndex == extracted.endLine - 1
                          from    == DocLineFrom(lines, line + 1)
                          to      == DocLineTo(lines, endLineIndex + 1)
                          content == JoinLines(extracted.contentLines)
                      IN  [kind  |-> IF ~selectionIntersects(ranges, from, to)
                                     THEN "emit" ELSE "skip",
                           range |-> [from |-> from, to |-> to, meta |-> meta,
                                      content |-> content, anchor |-> from],
                           next  |-> ResumeLine(line, extracted.endLine)]

MaxLpLines == 5

TipHeader == BANG3 \o <<SP, "t","i","p">>
BugHeader == QUES3 \o <<SP, "b","u","g">>
BT == "bt"               \* U+0060, the backtick
FenceLine == <<BT, BT, BT>>
LpLineKinds == {
    TipHeader,                  \* a header
    SP4 \o BugHeader,           \* an indented line, itself shaped like a header
    << >>,                      \* blank
    FenceLine }                 \* a code fence: not indented, not a header
LpDocs == UNION { [1..n -> LpLineKinds] : n \in 1..MaxLpLines }
LpPositions(lines) ==
    { DocLineFrom(lines, n) : n \in 1..Len(lines) }
        \cup { DocLineTo(lines, n) : n \in 1..Len(lines) }
\* a selection has at least one range; its ranges are sorted and disjoint:
\* one cursor, the whole document selected, or a cursor at each end
LpSelections(lines) ==
    { << [from |-> a, to |-> a] >> : a \in LpPositions(lines) }
    \cup
    { << [from |-> 0, to |-> DocLineTo(lines, Len(lines))] >> }
    \cup
    { << [from |-> 0, to |-> 0], [from |-> b, to |-> b] >> :
        b \in { DocLineTo(lines, Len(lines)) } \ {0} }
LpOptions == { [endOnDoubleBlank |-> TRUE,  enabled |-> TRUE],
               [endOnDoubleBlank |-> FALSE, enabled |-> TRUE],
               [endOnDoubleBlank |-> TRUE,  enabled |-> FALSE] }

InitLive ==
    /\ HeaderIdle /\ ExtractIdle /\ MdIdle /\ RenderIdle /\ CompareIdle /\ EditorIdle
    /\ lpDoc \in LpDocs
    /\ lpSel \in LpSelections(lpDoc)
    /\ lpOpts \in LpOptions
    /\ lpPc = "start"
    /\ lpLine = 0
    /\ lpBuilder = << >>
    /\ lpBlocks = << >>

LiveOthers == << hdrVars, exVars, mdVars, rnVars, cmpVars, edVars >>

\* if (!options.enabled) return Decoration.none
BuildDisabled ==
    /\ lpPc = "start"
    /\ ~lpOpts.enabled
    /\ lpPc' = "done"
    /\ UNCHANGED << lpDoc, lpSel, lpOpts, lpLine, lpBuilder, lpBlocks, LiveOthers >>

\* const builder = new RangeSetBuilder(); let line = 0
BuildBegin ==
    /\ lpPc = "start"
    /\ lpOpts.enabled
    /\ lpPc' = "scan"
    /\ lpLine' = 0
    /\ lpBuilder' = << >>
    /\ UNCHANGED << lpDoc, lpSel, lpOpts, lpBlocks, LiveOthers >>

\* parseHeader returned null: line += 1
ScanNotHeader ==
    /\ lpPc = "scan"
    /\ lpLine < Len(lpDoc)
    /\ LET step == ScanStep(lpDoc, lpSel, lpOpts, lpLine)
       IN  /\ step.kind = "noHeader"
           /\ lpLine' = step.next
    /\ UNCHANGED << lpDoc, lpSel, lpOpts, lpPc, lpBuilder, lpBlocks, LiveOthers >>

\* extractContentFromLines returned null: line += 1
ScanNoContent ==
    /\ lpPc = "scan"
    /\ lpLine < Len(lpDoc)
    /\ LET step == ScanStep(lpDoc, lpSel, lpOpts, lpLine)
       IN  /\ step.kind = "noContent"
           /\ lpLine' = step.next
    /\ UNCHANGED << lpDoc, lpSel, lpOpts, lpPc, lpBuilder, lpBlocks, LiveOthers >>

\* a block whose span meets the selection: no widget, line = extracted.endLine
ScanSkipSelected ==
    /\ lpPc = "scan"
    /\ lpLine < Len(lpDoc)
    /\ LET step == ScanStep(lpDoc, lpSel, lpOpts, lpLine)
       IN  /\ step.kind = "skip"
           /\ lpLine' = step.next
           /\ lpBlocks' = Append(lpBlocks, [headerLine |-> lpLine, emitted |-> FALSE,
                                            resumedAt |-> step.next])
    /\ UNCHANGED << lpDoc, lpSel, lpOpts, lpPc, lpBuilder, LiveOthers >>

\* a block clear of the selection: builder.add(from, to, ...), line = extracted.endLine
ScanEmit ==
    /\ lpPc = "scan"
    /\ lpLine < Len(lpDoc)
    /\ LET step == ScanStep(lpDoc, lpSel, lpOpts, lpLine)
       IN  /\ step.kind = "emit"
           /\ lpLine' = step.next
           /\ lpBuilder' = Append(lpBuilder, step.range)
           /\ lpBlocks' = Append(lpBlocks, [headerLine |-> lpLine, emitted |-> TRUE,
                                            resumedAt |-> step.next])
    /\ UNCHANGED << lpDoc, lpSel, lpOpts, lpPc, LiveOthers >>

\* the loop ends: return builder.finish()
BuildFinish ==
    /\ lpPc = "scan"
    /\ ~(lpLine < Len(lpDoc))
    /\ lpPc' = "done"
    /\ UNCHANGED << lpDoc, lpSel, lpOpts, lpLine, lpBuilder, lpBlocks, LiveOthers >>

NextLive ==
    \/ BuildDisabled
    \/ BuildBegin
    \/ ScanNotHeader
    \/ ScanNoContent
    \/ ScanSkipSelected
    \/ ScanEmit
    \/ BuildFinish

SpecLive == InitLive /\ [][NextLive]_vars


(***************************************************************************)
(* markdown-it: the block state the rule reads.  The library is not part   *)
(* of the repository; StateBlock, the block tokenizer and the code, fence  *)
(* and paragraph rules are modelled after their documented behaviour, for  *)
(* the fields main.ts uses (markdown-it.d.ts, StateBlock).  Line arrays    *)
(* are sequences: the entry of 0-based line n is at index n + 1.           *)
(***************************************************************************)
\* the characters markdown-it counts as indentation
MdSpace == { SP, TAB }
\* s.charCodeAt(pos) as a character; "eof" stands for NaN past the end
CharAt(s, pos) == IF pos >= 0 /\ pos < Len(s) THEN s[pos + 1] ELSE "eof"

\* the indent in columns of the first n characters after 0-based index start
\* (a tab goes to the next multiple of 4)
RECURSIVE SBOffset(_, _, _)
SBOffset(s, start, n) ==
    IF n = 0 THEN 0
    ELSE LET before == SBOffset(s, start, n - 1)
         IN  IF s[start + n] = TAB THEN before + 4 - (before % 4) ELSE before + 1

\* the StateBlock constructor's pass over src, taken a line at a time: per
\* line its start b, its end e, the number of indent characters and the
\* indent in columns.  A last line without a newline that holds only spaces
\* and tabs is not recorded (the loop continues past its last character
\* before reaching the push).
RECURSIVE SBScan(_, _)
SBScan(s, start) ==
    IF start >= Len(s) THEN << >>
    ELSE LET nl     == { i \in start..(Len(s) - 1) : s[i + 1] = LF }
             e      == IF nl = {} THEN Len(s)
                       ELSE CHOOSE i \in nl : \A j \in nl : i <= j
             indent == RunLen(Slice(s, start, e), 0, MdSpace)
         IN  IF nl = {} /\ start + indent = e THEN << >>
             ELSE << [b |-> start, e |-> e, tShift |-> indent,
                      sCount |-> SBOffset(s, start, indent)] >>
                  \o SBScan(s, e + 1)

\* new StateBlock(src, ...): the line arrays end with one entry for the end
\* of the text.  (ls ranges over a one-element set so that the scan is
\* computed once.)
NewStateBlock(src) ==
    CHOOSE state \in
        { [src       |-> src,
           bMarks    |-> [i \in 1..(Len(ls) + 1) |->
                             IF i <= Len(ls) THEN ls[i].b ELSE Len(src)],
           eMarks    |-> [i \in 1..(Len(ls) + 1) |->
                             IF i <= Len(ls) THEN ls[i].e ELSE Len(src)],
           tShift    |-> [i \in 1..(Len(ls) + 1) |->
                             IF i <= Len(ls) THEN ls[i].tShift ELSE 0],
           sCount    |-> [i \in 1..(Len(ls) + 1) |->
                             IF i <= Len(ls) THEN ls[i].sCount ELSE 0],
           lineMax   |-> Len(ls),
           blkIndent |-> 0,
           line      |-> 0,
           tokens    |-> << >>] : ls \in { SBScan(src, 0) } } : TRUE

\* state.isEmpty(line)
isEmpty(state, line) ==
    state.bMarks[line + 1] + state.tShift[line + 1] >= state.eMarks[line + 1]

(***************************************************************************)
(* The markdown-it content extractor and block rule (main.ts)              *)
(***************************************************************************)
\* up to four spaces from pos on: while (spaces < 4 && charCodeAt(pos) === 0x20)
RECURSIVE SkipSpaces4(_, _, _)
SkipSpaces4(src, pos, spaces) ==
    IF spaces < 4 /\ CharAt(src, pos) = SP
    THEN SkipSpaces4(src, pos + 1, spaces + 1)
    ELSE pos

\* where the content of an accepted line starts: one tab, or up to four
\* spaces, after lineStart
ContentStartNoStrip(state, nextLine) ==
    state.bMarks[nextLine + 1] + state.blkIndent
ContentStart(state, nextLine) ==
    LET lineStart == state.bMarks[nextLine + 1] + state.blkIndent
    IN  IF CharAt(state.src, lineStart) = TAB THEN lineStart + 1
        ELSE SkipSpaces4(state.src, lineStart, 0)

\* if (!sawIndented) return null; else { content, endLine }
NullContent == [isNull |-> TRUE]
ContentResultAlways(contentLines, nextLine, sawIndented) ==
    [isNull |-> FALSE, content |-> JoinLines(contentLines), endLine |-> nextLine]
ContentResult(contentLines, nextLine, sawIndented) ==
    IF ~sawIndented THEN NullContent
    ELSE [isNull |-> FALSE, content |-> JoinLines(contentLines), endLine |-> nextLine]

\* the while loop of extractContent
RECURSIVE ContentLoop(_, _, _, _, _)
ContentLoop(state, nextLine, endLine, sawIndented, contentLines) ==
    IF ~(nextLine < endLine)
    THEN ContentResult(contentLines, nextLine, sawIndented)
    ELSE IF isEmpty(state, nextLine)
    THEN ContentLoop(state, nextLine + 1, endLine, sawIndented,
                     Append(contentLines, << >>))
    ELSE LET indent == state.sCount[nextLine + 1] - state.blkIndent
         IN  IF indent < 4
             THEN ContentResult(contentLines, nextLine, sawIndented)
             ELSE LET pos     == ContentStart(state, nextLine)
                      lineEnd == state.eMarks[nextLine + 1]
                  IN  ContentLoop(state, nextLine + 1, endLine, TRUE,
                                  Append(contentLines, Slice(state.src, pos, lineEnd)))

extractContent(state, startLine, endLine) ==
    ContentLoop(state, startLine, endLine, FALSE, << >>)

\* state.line = extracted.endLine
RuleCursorNextLine(startLine, extractedEnd) == startLine + 1
RuleCursor(startLine, extractedEnd) == extractedEnd

\* the rule: [ok |-> its return value, state |-> the state it leaves]
mkdocsAdmonitionRule(state, startLine, endLine, silent) ==
    LET start    == state.bMarks[startLine + 1] + state.tShift[startLine + 1]
        max      == state.eMarks[startLine + 1]
        lineText == Slice(state.src, start, max)
        meta     == parseHeader(Trim(lineText))
        extracted == extractContent(state, startLine + 1, endLine)
        token    == [type    |-> "mkdocs_admonition",
                     block   |-> TRUE,
                     map     |-> << startLine, extracted.endLine >>,
                     meta    |-> meta,
                     content |-> extracted.content]
    IN  IF start + 3 > max THEN [ok |-> FALSE, state |-> state]
        ELSE IF ~StartsWith(lineText, BANG3) /\ ~StartsWith(lineText, QUES3)
        THEN [ok |-> FALSE, state |-> state]
        ELSE IF meta.isNull THEN [ok |-> FALSE, state |-> state]
        ELSE IF silent THEN [ok |-> TRUE, state |-> state]
        ELSE IF extracted.isNull THEN [ok |-> FALSE, state |-> state]
        ELSE [ok    |-> TRUE,
              state |-> [state EXCEPT !.tokens = Append(@, token),
                                      !.line = RuleCursor(startLine, extracted.endLine)]]


(***************************************************************************)
(* The two renderers.  An element is a record of its tag, class,           *)
(* attributes, text and child elements.                                    *)
(***************************************************************************)
El(tag, class, attrs, text, children) ==
    [tag |-> tag, class |-> class, attrs |-> attrs, text |-> text,
     children |-> children]

\* md.utils.escapeHtml: & < > " become entities (one entity is one element)
EscapeChar(c) ==
    IF c = "&" THEN "&amp;"
    ELSE IF c = "<" THEN "&lt;"
    ELSE IF c = ">" THEN "&gt;"
    ELSE IF c = DQ THEN "&quot;"
    ELSE c
escapeHtml(str) == [i \in 1..Len(str) |-> EscapeChar(str[i])]

\* the string the mkdocs_admonition render rule returns, as the element tree
\* it spells; inner is the rendered token content
renderAdmonitionHtml(meta, inner) ==
    LET title == IF Truthy(meta.title) THEN escapeHtml(meta.title.text) ELSE << >>
        contentEl == El("div", "callout-content", { }, << >>, inner)
    IN  IF meta.collapsible
        THEN LET openAttr == IF meta.open THEN { <<"open", << >> >> } ELSE { }
                 titleHtml == El("summary", "callout-title", { }, << >>,
                                 << El("span", "callout-title-inner", { }, title, << >>) >>)
             IN  El("details", "callout mkdocs-admonition",
                    { <<"data-callout", meta.calloutType>> } \cup openAttr,
                    << >>, << titleHtml, contentEl >>)
        ELSE LET titleHtml ==
                    IF title # << >>
                    THEN << El("div", "callout-title", { }, << >>,
                               << El("div", "callout-title-inner", { }, title, << >>) >>) >>
                    ELSE << >>
             IN  El("div", "callout mkdocs-admonition",
                    { <<"data-callout", meta.calloutType>> },
                    << >>, titleHtml \o << contentEl >>)

\* if (meta.collapsible && meta.open) container.setAttribute("open", "")
domOpenAttrAnyBlock(meta) ==
    IF meta.open THEN { <<"open", << >> >> } ELSE { }
domOpenAttr(meta) ==
    IF meta.collapsible /\ meta.open THEN { <<"open", << >> >> } ELSE { }

\* buildCalloutContainer: [root, content]; the content region is empty
buildCalloutContainer(meta) ==
    LET content == El("div", "callout-content", { }, << >>, << >>)
        titleEls ==
            IF meta.collapsible
            THEN << El("summary", "callout-title", { }, << >>,
                       << El("span", "callout-title-inner", { },
                             IF meta.title.isNull THEN << >> ELSE meta.title.text,
                             << >>) >>) >>
            ELSE IF Truthy(meta.title)
            THEN << El("div", "callout-title", { }, << >>,
                       << El("div", "callout-title-inner", { },
                             meta.title.text, << >>) >>) >>
            ELSE << >>
    IN  [root    |-> El(IF meta.collapsible THEN "details" ELSE "div",
                        "callout mkdocs-admonition",
                        { <<"data-callout", meta.calloutType>> } \cup domOpenAttr(meta),
                        << >>, titleEls \o << content >>),
         content |-> content]

(***************************************************************************)
(* markdown-it: the block tokenizer with the rules that the model's        *)
(* documents can trigger, in the order of the rule chain: code, then       *)
(* mkdocs_admonition (registered before "fence"), fence, paragraph.        *)
(***************************************************************************)
\* the source lines n with from <= n < to, as written
RawLines(state, from, to) ==
    [i \in 1..(to - from) |->
        Slice(state.src, state.bMarks[from + i], state.eMarks[from + i])]

Indent(state, line) == state.sCount[line + 1] - state.blkIndent

RECURSIVE CodeLast(_, _, _, _)
CodeLast(state, nextLine, last, endLine) ==
    IF ~(nextLine < endLine) THEN last
    ELSE IF isEmpty(state, nextLine) THEN CodeLast(state, nextLine + 1, last, endLine)
    ELSE IF Indent(state, nextLine) >= 4
    THEN CodeLast(state, nextLine + 1, nextLine + 1, endLine)
    ELSE last

codeRule(state, startLine, endLine) ==
    IF Indent(state, startLine) < 4 THEN [ok |-> FALSE, state |-> state]
    ELSE LET last == CodeLast(state, startLine + 1, startLine + 1, endLine)
         IN  [ok    |-> TRUE,
              state |-> [state EXCEPT
                            !.tokens = Append(@, [type |-> "code_block",
                                                  map  |-> << startLine, last >>,
                                                  rawLines |-> RawLines(state, startLine, last)]),
                            !.line = last]]

\* the line that closes a fence of len backticks, searched from nextLine on
RECURSIVE FenceClose(_, _, _, _)
FenceClose(state, nextLine, endLine, len) ==
    IF nextLine >= endLine THEN [line |-> nextLine, haveEndMarker |-> FALSE]
    ELSE LET pos == state.bMarks[nextLine + 1] + state.tShift[nextLine + 1]
             max == state.eMarks[nextLine + 1]
             n   == RunLen(state.src, pos, { BT })
         IN  IF pos < max /\ state.sCount[nextLine + 1] < state.blkIndent
             THEN [line |-> nextLine, haveEndMarker |-> FALSE]
             ELSE IF \/ CharAt(state.src, pos) # BT
                     \/ Indent(state, nextLine) >= 4
                     \/ n < len
                     \/ pos + n + RunLen(state.src, pos + n, MdSpace) < max
             THEN FenceClose(state, nextLine + 1, endLine, len)
             ELSE [line |-> nextLine, haveEndMarker |-> TRUE]

fenceRule(state, startLine, endLine, silent) ==
    LET pos == state.bMarks[startLine + 1] + state.tShift[startLine + 1]
        max == state.eMarks[startLine + 1]
        len == RunLen(state.src, pos, { BT })
        params == Slice(state.src, pos + len, max)
        close  == FenceClose(state, startLine + 1, endLine, len)
        after  == close.line + (IF close.haveEndMarker THEN 1 ELSE 0)
    IN  IF \/ Indent(state, startLine) >= 4
           \/ pos + 3 > max
           \/ CharAt(state.src, pos) # BT
           \/ len < 3
           \/ IndexOf(params, BT, 0) >= 0
        THEN [ok |-> FALSE, state |-> state]
        ELSE IF silent THEN [ok |-> TRUE, state |-> state]
        ELSE [ok    |-> TRUE,
              state |-> [state EXCEPT
                            !.tokens = Append(@, [type |-> "fence",
                                                  map  |-> << startLine, after >>,
                                                  rawLines |-> RawLines(state, startLine + 1, close.line)]),
                            !.line = after]]

\* a rule whose alt list names "paragraph" ends a paragraph when it accepts
\* the line in silent mode
TerminatesParagraph(state, nextLine, endLine) ==
    \/ mkdocsAdmonitionRule(state, nextLine, endLine, TRUE).ok
    \/ fenceRule(state, nextLine, endLine, TRUE).ok

RECURSIVE ParagraphEnd(_, _, _)
ParagraphEnd(state, nextLine, endLine) ==
    IF ~(nextLine < endLine) \/ isEmpty(state, nextLine) THEN nextLine
    ELSE IF Indent(state, nextLine) > 3 \/ state.sCount[nextLine + 1] < 0
    THEN ParagraphEnd(state, nextLine + 1, endLine)
    ELSE IF TerminatesParagraph(state, nextLine, endLine) THEN nextLine
    ELSE ParagraphEnd(state, nextLine + 1, endLine)

paragraphRule(state, startLine) ==
    LET nextLine == ParagraphEnd(state, startLine + 1, state.lineMax)
    IN  [ok    |-> TRUE,
         state |-> [state EXCEPT
                       !.tokens = Append(@, [type |-> "paragraph",
                                             map  |-> << startLine, nextLine >>,
                                             rawLines |-> RawLines(state, startLine, nextLine)]),
                       !.line = nextLine]]

\* the first rule of the chain that accepts the line
ApplyRules(state, line, endLine) ==
    LET code == codeRule(state, line, endLine)
        adm  == mkdocsAdmonitionRule(state, line, endLine, FALSE)
        fen  == fenceRule(state, line, endLine, FALSE)
    IN  IF code.ok THEN code.state
        ELSE IF adm.ok THEN adm.state
        ELSE IF fen.ok THEN fen.state
        ELSE paragraphRule(state, line).state

RECURSIVE SkipEmptyLines(_, _)
SkipEmptyLines(state, from) ==
    IF from < state.lineMax /\ isEmpty(state, from)
    THEN SkipEmptyLines(state, from + 1)
    ELSE from

\* after a rule: if (line < endLine && state.isEmpty(line)) line++
AfterBlock(done, endLine) ==
    IF done.line < endLine /\ isEmpty(done, done.line)
    THEN done.line + 1 ELSE done.line

\* ParserBlock.tokenize.  (line, here and done range over one-element sets so
\* that each is computed once per iteration.)
RECURSIVE TokenizeLoop(_, _, _)
TokenizeLoop(state, line0, endLine) ==
    IF ~(line0 < endLine) THEN state
    ELSE CHOOSE out \in
        { IF line >= endLine \/ state.sCount[line + 1] < state.blkIndent
          THEN [state EXCEPT !.line = line]
          ELSE CHOOSE res \in
              { TokenizeLoop([done EXCEPT !.line = AfterBlock(done, endLine)],
                             AfterBlock(done, endLine), endLine) :
                  done \in { ApplyRules(here, line, endLine) :
                                 here \in { [state EXCEPT !.line = line] } } } : TRUE
          : line \in { SkipEmptyLines(state, line0) } } : TRUE

\* md.block.parse(src): the block tokens of a source text
ParseBlocks(src) ==
    CHOOSE tokens \in
        { TokenizeLoop(state, 0, state.lineMax).tokens :
              state \in { NewStateBlock(src) } } : TRUE

\* md.render(src): the rendered blocks; a mkdocs_admonition token is rendered
\* by the plugin's rule, which renders token.content with md.render again
RECURSIVE Render(_)
renderAdmonitionNoReparse(token) ==
    renderAdmonitionHtml(token.meta,
        << [type |-> "text", rawLines |-> << token.content >>] >>)
renderAdmonition(token) ==
    renderAdmonitionHtml(token.meta, Render(token.content))
Render(src) ==
    CHOOSE nodes \in
        { [i \in 1..Len(tokens) |->
              IF tokens[i].type = "mkdocs_admonition"
              THEN renderAdmonition(tokens[i])
              ELSE [type |-> tokens[i].type, rawLines |-> tokens[i].rawLines]] :
              tokens \in { ParseBlocks(src) } } : TRUE


(***************************************************************************)
(* markdown-it probe: one call of the block rule on a fresh block state,   *)
(* and md.render of the source text.                                       *)
(***************************************************************************)
MaxMdLines == 3
MaxDepth   == 3

MdLineKinds == {
    NoteHeader,                 \* a header
    SP4 \o <<"x">>,             \* four spaces
    <<TAB, "x">>,               \* one tab
    << >>,                      \* blank
    <<SP, SP>>,                 \* white space only
    <<"x">>,                    \* plain text
    FenceLine }                 \* a code fence
MdDocs == UNION { [1..n -> MdLineKinds] : n \in 1..MaxMdLines }

\* the headers of the nested documents
NestHeaders == {
    BANG3 \o <<SP, "n","o","t","e", SP, DQ, "A", DQ>>,
    QUES3 \o <<SP, "t","i","p">>,
    QUES3P \o <<SP, "b","o","g","u","s", SP, SQ, "C", SQ>> }
NestStyles == { "plain", "textBefore", "blankBefore", "textAfter", "textAround" }
Spaces(n) == [i \in 1..n |-> SP]
\* levels k..Len(hs) of a nested document: the level-k header is indented
\* 4 * (k - 1) spaces and its body 4 * k spaces
RECURSIVE NestLines(_, _, _)
NestLines(hs, k, style) ==
    LET body   == Spaces(4 * k)
        before == IF style \in { "textBefore", "textAround" } THEN << body \o <<"a">> >>
                  ELSE IF style = "blankBefore" THEN << << >> >>
                  ELSE << >>
        after  == IF style \in { "textAfter", "textAround" } THEN << body \o <<"z">> >>
                  ELSE << >>
    IN  << Spaces(4 * (k - 1)) \o hs[k] >>
        \o (IF k < Len(hs)
            THEN before \o NestLines(hs, k + 1, style) \o after
            ELSE << body \o <<"x">> >>)

MdInputs ==
    { [lines |-> d, src |-> JoinLines(d), startLine |-> n, silent |-> b,
       nest |-> << >>, style |-> "none"] :
        d \in MdDocs, n \in 0..(MaxMdLines - 1), b \in BOOLEAN }
    \cup
    { [lines |-> NestLines(hs, 1, st), src |-> JoinLines(NestLines(hs, 1, st)),
       startLine |-> 0, silent |-> FALSE, nest |-> hs, style |-> st] :
        hs \in UNION { [1..d -> NestHeaders] : d \in 1..MaxDepth }, st \in NestStyles }

MdOthers == << hdrVars, exVars, lpVars, rnVars, cmpVars, edVars >>

InitMd ==
    /\ HeaderIdle /\ ExtractIdle /\ LiveIdle /\ RenderIdle /\ CompareIdle /\ EditorIdle
    /\ mdIn \in MdInputs
    /\ mdIn.startLine < NewStateBlock(mdIn.src).lineMax
    /\ mdRuleOut = Pending
    /\ mdRenderOut = Pending

\* state.line when the rule is called: the tokenizer calls it in normal mode
\* with state.line at the candidate line; the paragraph rule calls it in
\* silent mode with state.line still at the line the paragraph started on
MdLineBefore == IF mdIn.silent THEN 0 ELSE mdIn.startLine

\* the tokenizer offers line startLine to the rule
MdRuleCall ==
    /\ mdRuleOut = Pending
    /\ \E state \in { [NewStateBlock(mdIn.src) EXCEPT !.line = MdLineBefore] } :
           \E res \in { mkdocsAdmonitionRule(state, mdIn.startLine, state.lineMax,
                                              mdIn.silent) } :
               mdRuleOut' = [ok |-> res.ok, tokens |-> res.state.tokens,
                             line |-> res.state.line]
    /\ UNCHANGED << mdIn, mdRenderOut, MdOthers >>

\* md.render(src)
MdRender ==
    /\ mdRenderOut = Pending
    /\ mdRenderOut' = [nodes |-> Render(mdIn.src)]
    /\ UNCHANGED << mdIn, mdRuleOut, MdOthers >>

NextMd == MdRuleCall \/ MdRender

SpecMd == InitMd /\ [][NextMd]_vars


(***************************************************************************)
(* Properties of one pass of the live range computer.  Positions and block *)
(* extents are restated here from the document text alone.                 *)
(***************************************************************************)
LpText == JoinLines(lpDoc)
LpLineCount == Len(lpDoc)
\* the position of the first character of 0-based line n: one past the n-th
\* line break of the text
LpLineStart(n) ==
    IF n = 0 THEN 0
    ELSE 1 + (CHOOSE p \in 0..(Len(LpText) - 1) :
                  /\ LpText[p + 1] = LF
                  /\ Cardinality({ q \in 0..(p - 1) : LpText[q + 1] = LF }) = n - 1)
LpLineEnd(n) == LpLineStart(n) + Len(lpDoc[n + 1])
LpIsBlank(n) == lpDoc[n + 1] = << >>
LpIsIndented(n) ==
    \/ Len(lpDoc[n + 1]) >= 1 /\ lpDoc[n + 1][1] = TAB
    \/ Len(lpDoc[n + 1]) >= 4 /\ \A i \in 1..4 : lpDoc[n + 1][i] = SP
LpIsHeader(n) == Trim(lpDoc[n + 1]) \in { TipHeader, BugHeader }
\* line e is where the block of the header at line h stops: the end of the
\* document, a line that is neither blank nor indented, or the second of two
\* blank lines in a row when endOnDoubleBlank is set
LpStops(h, e) ==
    \/ e = LpLineCount
    \/ ~LpIsBlank(e) /\ ~LpIsIndented(e)
    \/ lpOpts.endOnDoubleBlank /\ e - 1 > h /\ LpIsBlank(e) /\ LpIsBlank(e - 1)
LpBlockEnd(h) ==
    CHOOSE e \in (h + 1)..LpLineCount :
        LpStops(h, e) /\ \A f \in (h + 1)..(e - 1) : ~LpStops(h, f)
LpHasBody(h) == \E j \in (h + 1)..(LpBlockEnd(h) - 1) : LpIsIndented(j)
LpSpanFrom(h) == LpLineStart(h)
LpSpanTo(h) == LpLineEnd(LpBlockEnd(h) - 1)
\* some position lies both in [from, to] and in a selection range
SharesPosition(from, to) ==
    \E p \in from..to : \E i \in 1..Len(lpSel) :
        lpSel[i].from <= p /\ p <= lpSel[i].to

\* C6: a recognized block whose span [from, to] shares a position with some
\* selection range, endpoints included, is not materialized as a widget range;
\* a recognized block whose span shares no position with any selection range
\* is materialized with exactly that span; either way the scan resumed at the
\* block's endLine.
C6_SelectionGate ==
    \A i \in 1..Len(lpBlocks) :
        LET b    == lpBlocks[i]
            from == LpSpanFrom(b.headerLine)
            to   == LpSpanTo(b.headerLine)
        IN  /\ LpIsHeader(b.headerLine) /\ LpHasBody(b.headerLine)
            /\ b.emitted <=> ~SharesPosition(from, to)
            /\ b.emitted <=> \E j \in 1..Len(lpBuilder) :
                                lpBuilder[j].from = from /\ lpBuilder[j].to = to
            /\ b.resumedAt = LpBlockEnd(b.headerLine)

\* one block left raw because a cursor touches the very end of its span, and
\* another block materialized in the same pass
C6_Witness ==
    \E i, j \in 1..Len(lpBlocks) :
        /\ ~lpBlocks[i].emitted
        /\ lpBlocks[j].emitted
        /\ Len(lpSel) = 1
        /\ lpSel[1].from = LpSpanTo(lpBlocks[i].headerLine)
        /\ lpSel[1].to = lpSel[1].from

\* a block left raw because a cursor touches the very start of its span
C6_WitnessTouchStart ==
    \E i \in 1..Len(lpBlocks) :
        /\ ~lpBlocks[i].emitted
        /\ lpBlocks[i].headerLine > 0
        /\ Len(lpSel) = 1
        /\ lpSel[1].from = LpSpanFrom(lpBlocks[i].headerLine)
        /\ lpSel[1].to = lpSel[1].from

\* C7: in one pass the emitted ranges are in strictly increasing position
\* order and pairwise disjoint (r1.from < r1.to < r2.from for consecutive
\* ranges), and no emitted range starts on a line inside the consumed content
\* of a recognized block, materialized or skipped.
C7_RangesOrdered ==
    /\ \A i \in 1..Len(lpBuilder) : lpBuilder[i].from < lpBuilder[i].to
    /\ \A i \in 1..(Len(lpBuilder) - 1) : lpBuilder[i].to < lpBuilder[i + 1].from
    /\ \A i \in 1..Len(lpBuilder) : \A k \in 1..Len(lpBlocks) :
           \A n \in (lpBlocks[k].headerLine + 1)..(LpBlockEnd(lpBlocks[k].headerLine) - 1) :
               lpBuilder[i].from # LpLineStart(n)

\* a finished pass that emitted two ranges
C7_Witness == lpPc = "done" /\ Len(lpBuilder) = 2

\* a finished pass over a block whose content holds an indented header line
\* that has an indented line after it
C7_WitnessInnerHeader ==
    /\ lpPc = "done"
    /\ Len(lpBuilder) = 1
    /\ \E k \in 1..Len(lpBlocks) :
           \E n \in (lpBlocks[k].headerLine + 1)..(LpBlockEnd(lpBlocks[k].headerLine) - 2) :
               LpIsHeader(n) /\ LpIsIndented(n + 1)

\* line n lies between an opening code fence and its closing fence
LpInsideFence(n) ==
    \E a \in 0..(n - 1) : \E b \in (n + 1)..(LpLineCount - 1) :
        /\ lpDoc[a + 1] = FenceLine
        /\ lpDoc[b + 1] = FenceLine
        /\ \A m \in (a + 1)..(b - 1) : lpDoc[m + 1] # FenceLine
        /\ Cardinality({ m \in 0..(a - 1) : lpDoc[m + 1] = FenceLine }) % 2 = 0

\* C8: a header-shaped line that lies between an opening code fence and its
\* closing fence, followed by an indented line, never produces an admonition
\* range in the live range computer.
C8_NoRangeInsideFence ==
    \A i \in 1..Len(lpBuilder) : \A n \in 0..(LpLineCount - 1) :
        lpBuilder[i].from = LpLineStart(n) => ~LpInsideFence(n)

\* the pass over a fence, a header, an indented line and the closing fence,
\* with the cursor on the opening fence, ends with a range for the header
C8_RangeInsideFence ==
    /\ lpDoc = << FenceLine, TipHeader, SP4 \o BugHeader, FenceLine >>
    /\ lpSel = << [from |-> 0, to |-> 0] >>
    /\ lpPc = "done"
    /\ Len(lpBuilder) = 1
    /\ lpBuilder[1].from = 4
    /\ lpBuilder[1].to = 23


(***************************************************************************)
(* A header without a body, in the line-based extractor, the live range    *)
(* computer and the markdown-it block rule.                                *)
(***************************************************************************)
InitNoBody == InitExtract \/ InitLive \/ InitMd

NextNoBody == NextExtract \/ NextLive \/ NextMd

SpecNoBody == InitNoBody /\ [][NextNoBody]_vars

ExProbed == exIn # << >>
\* some line from startLine on is indented, with only blank or indented lines
\* before it and, under endOnDoubleBlank, no two blank lines in a row before it
ExHasBody ==
    \E j \in exIn.startLine..(Len(exIn.lines) - 1) :
        /\ ExIsIndented(j)
        /\ \A i \in exIn.startLine..(j - 1) : ExIsBlank(i) \/ ExIsIndented(i)
        /\ exIn.options.endOnDoubleBlank =>
               \A i \in (exIn.startLine + 1)..(j - 1) : ~(ExIsBlank(i) /\ ExIsBlank(i - 1))
C5_Extractor ==
    (ExProbed /\ Extracted /\ ~ExHasBody) => exOut.isNull

MdProbed == mdIn # << >>
MdLine(i) == mdIn.lines[i + 1]
MdWsOnly(i) == \A c \in 1..Len(MdLine(i)) : MdLine(i)[c] \in { SP, TAB }
\* the line's indent is at least 4 columns: a tab within its first four
\* characters after spaces only, or four spaces
MdCols4(i) ==
    \E p \in { <<TAB>>, SP4, <<SP, TAB>>, <<SP, SP, TAB>>, <<SP, SP, SP, TAB>> } :
        StartsWith(MdLine(i), p)
MdIsHeader(i) == Trim(MdLine(i)) \in ({ NoteHeader } \cup NestHeaders)
MdHasBody(h) ==
    \E j \in (h + 1)..(Len(mdIn.lines) - 1) :
        /\ ~MdWsOnly(j) /\ MdCols4(j)
        /\ \A i \in (h + 1)..(j - 1) : MdWsOnly(i) \/ MdCols4(i)
MdRuleDone == MdProbed /\ mdRuleOut # Pending
C5_Rule ==
    (MdRuleDone /\ ~mdIn.silent /\ MdIsHeader(mdIn.startLine)
        /\ ~MdHasBody(mdIn.startLine))
    => (mdRuleOut.ok = FALSE /\ mdRuleOut.tokens = << >>)

C5_LiveNoRange ==
    \A i \in 1..Len(lpBuilder) : \A n \in 0..(LpLineCount - 1) :
        lpBuilder[i].from = LpLineStart(n) => LpHasBody(n)
C5_LiveStep ==
    (lpPc = "scan" /\ lpLine < LpLineCount /\ LpIsHeader(lpLine) /\ ~LpHasBody(lpLine))
    => (lpLine' = lpLine + 1 /\ lpBuilder' = lpBuilder /\ lpBlocks' = lpBlocks)

\* C5: a header line that is not followed by at least one line accepted
\* through the tab or 4-space branch never yields a block.  The line-based
\* extractor returns null, also when it consumed blank lines; the block rule,
\* called in normal mode, returns false and pushes no token; the live range
\* computer adds no range for the header and its next iteration looks at the
\* very next line.
C5_NoBodyNoBlock ==
    /\ [](C5_Extractor /\ C5_Rule /\ C5_LiveNoRange)
    /\ [][C5_LiveStep]_vars

\* the extractor consumed a blank line, met a line that is not indented and
\* returned null
C5_Witness ==
    /\ ExProbed /\ Extracted
    /\ exIn.startLine = 1
    /\ Len(exIn.lines) >= 3
    /\ ExIsBlank(1)
    /\ ExLine(2) = <<"x">>
    /\ exOut.isNull

\* the rule, in normal mode, rejected a header followed by plain text
C5_WitnessRule ==
    /\ MdRuleDone /\ ~mdIn.silent
    /\ mdIn.startLine = 0
    /\ mdIn.lines = << NoteHeader, << >>, <<"x">> >>
    /\ mdRuleOut.ok = FALSE

\* the live scan stands one line past a header that has blank lines only
C5_WitnessLive ==
    /\ lpPc = "scan"
    /\ lpDoc = << TipHeader, << >>, FenceLine >>
    /\ lpLine = 1
    /\ lpBuilder = << >>


(***************************************************************************)
(* Nested admonitions through md.render.                                   *)
(***************************************************************************)
MdRendered == MdProbed /\ mdRenderOut # Pending
IsEl(n) == "tag" \in DOMAIN n
\* what the block of each header of NestHeaders has to look like
ExpectedView(h) ==
    IF h = BANG3 \o <<SP, "n","o","t","e", SP, DQ, "A", DQ>>
    THEN [tag |-> "div", type |-> <<"n","o","t","e">>, open |-> FALSE,
          titleClass |-> "div", title |-> <<"A">>]
    ELSE IF h = QUES3 \o <<SP, "t","i","p">>
    THEN [tag |-> "details", type |-> <<"t","i","p">>, open |-> FALSE,
          titleClass |-> "summary", title |-> << >>]
    ELSE [tag |-> "details", type |-> <<"n","o","t","e">>, open |-> TRUE,
          titleClass |-> "summary", title |-> <<"C">>]
ElMatches(n, v) ==
    /\ n.tag = v.tag
    /\ n.class = "callout mkdocs-admonition"
    /\ n.attrs = { <<"data-callout", v.type>> }
                    \cup (IF v.open THEN { <<"open", << >> >> } ELSE { })
    /\ Len(n.children) = 2
    /\ n.children[1].tag = v.titleClass
    /\ n.children[1].class = "callout-title"
    /\ Len(n.children[1].children) = 1
    /\ n.children[1].children[1].text = v.title
    /\ n.children[2].class = "callout-content"
\* nodes hold exactly the blocks of levels k..Len(hs), one inside the other;
\* no text of nodes is a header line; the innermost content is the paragraph x
RECURSIVE NestOk(_, _, _)
NestOk(nodes, hs, k) ==
    LET adm == { i \in 1..Len(nodes) : IsEl(nodes[i]) }
    IN  /\ \A i \in (1..Len(nodes)) \ adm :
               \A l \in 1..Len(nodes[i].rawLines) :
                   Trim(nodes[i].rawLines[l]) \notin NestHeaders
        /\ IF k > Len(hs)
           THEN nodes = << [type |-> "paragraph", rawLines |-> << <<"x">> >>] >>
           ELSE /\ Cardinality(adm) = 1
                /\ LET n == nodes[CHOOSE i \in adm : TRUE]
                   IN  /\ ElMatches(n, ExpectedView(hs[k]))
                       /\ NestOk(n.children[2].children, hs, k + 1)

\* C9: for every input of d nested admonitions (1 <= d <= MaxDepth), the level-k
\* header indented 4*(k-1) spaces and its body 4*k spaces, rendering
\* recognizes the outer block and, feeding its de-indented content back
\* through the grammar, exactly d blocks nested one inside the other, each
\* with the meta of its own header, and no header line is left as raw text
\* in a content region.
C9_NestedReparse ==
    (MdRendered /\ mdIn.nest # << >>) => NestOk(mdRenderOut.nodes, mdIn.nest, 1)

\* three levels, each with text before and after the inner block, rendered
C9_Witness ==
    /\ MdRendered
    /\ Len(mdIn.nest) = 3
    /\ mdIn.style = "textAround"
    /\ mdIn.nest[1] # mdIn.nest[2]
    /\ mdIn.nest[2] # mdIn.nest[3]
    /\ Len(mdRenderOut.nodes) = 1


(***************************************************************************)
(* Renderer probe: the two renderers applied to one AdmonitionMeta.        *)
(***************************************************************************)
RnTitles == {
    Null,
    Str(<< >>),
    Str(<<"H", "i">>),
    Str(<<"<", "&", DQ, ">">>),
    Str(<<"a", SQ>>) }
RenderInputs ==
    { [isNull |-> FALSE, calloutType |-> t, title |-> ti, collapsible |-> c,
       open |-> o] :
        t \in VALID_TYPES, ti \in RnTitles, c \in BOOLEAN, o \in BOOLEAN }
\* the rendered token content
RnInner == << [type |-> "paragraph", rawLines |-> << <<"x">> >>] >>

InitRender ==
    /\ HeaderIdle /\ ExtractIdle /\ LiveIdle /\ MdIdle /\ CompareIdle /\ EditorIdle
    /\ rnIn \in RenderInputs
    /\ rnHtml = Pending
    /\ rnDom = Pending

\* md.renderer.rules.mkdocs_admonition(tokens, idx, options, env)
RenderHtmlCall ==
    /\ rnHtml = Pending
    /\ rnHtml' = renderAdmonitionHtml(rnIn, RnInner)
    /\ UNCHANGED << rnIn, rnDom, hdrVars, exVars, lpVars, mdVars, cmpVars, edVars >>

\* buildCalloutContainer(meta)
BuildContainerCall ==
    /\ rnDom = Pending
    /\ rnDom' = buildCalloutContainer(rnIn)
    /\ UNCHANGED << rnIn, rnHtml, hdrVars, exVars, lpVars, mdVars, cmpVars, edVars >>

NextRender == RenderHtmlCall \/ BuildContainerCall

SpecRender == InitRender /\ [][NextRender]_vars

\* what an HTML parser makes of the escaped text
UnescapeChar(c) ==
    IF c = "&amp;" THEN "&"
    ELSE IF c = "&lt;" THEN "<"
    ELSE IF c = "&gt;" THEN ">"
    ELSE IF c = "&quot;" THEN DQ
    ELSE c
RECURSIVE ParsedTree(_)
ParsedTree(n) ==
    IF ~IsEl(n) THEN n
    ELSE [n EXCEPT !.text = [i \in 1..Len(n.text) |-> UnescapeChar(n.text[i])],
                   !.children = [i \in 1..Len(n.children) |-> ParsedTree(n.children[i])]]
\* an element with the children of its last child left out
WithoutContent(n) ==
    [n EXCEPT !.children[Len(n.children)].children = << >>]
BothRendered == rnIn # << >> /\ rnHtml # Pending /\ rnDom # Pending
HasTitleRegion(root) ==
    /\ Len(root.children) = 2
    /\ root.children[1].class = "callout-title"
    /\ Len(root.children[1].children) = 1
    /\ root.children[1].children[1].class = "callout-title-inner"
TitleText(root) == root.children[1].children[1].text
OpenFlipped(meta) == [meta EXCEPT !.open = ~meta.open]

\* C10: for every AdmonitionMeta both renderers produce the same structure: a
\* details container iff collapsible, else a plain div; an open attribute iff
\* collapsible and open; a title region always when collapsible (with empty
\* text when there is no title) and, when not collapsible, iff the title is
\* non-empty; a callout-content region last; and for a non-collapsible block
\* the same output whether open is true or false.
C10_SameStructure ==
    BothRendered =>
        LET html == ParsedTree(rnHtml)
            dom  == rnDom.root
        IN  /\ WithoutContent(html) = dom
            /\ html.children[Len(html.children)].children = RnInner
            /\ \A root \in { html, dom } :
                 /\ root.tag = (IF rnIn.collapsible THEN "details" ELSE "div")
                 /\ (\E a \in root.attrs : a[1] = "open")
                        <=> (rnIn.collapsible /\ rnIn.open)
                 /\ <<"data-callout", rnIn.calloutType>> \in root.attrs
                 /\ rnIn.collapsible =>
                        /\ HasTitleRegion(root)
                        /\ TitleText(root) = (IF rnIn.title.isNull THEN << >>
                                              ELSE rnIn.title.text)
                 /\ ~rnIn.collapsible =>
                        /\ HasTitleRegion(root) <=> Truthy(rnIn.title)
                        /\ HasTitleRegion(root) => TitleText(root) = rnIn.title.text
                 /\ Len(root.children) \in { 1, 2 }
                 /\ root.children[Len(root.children)].class = "callout-content"
            /\ rnDom.content = dom.children[Len(dom.children)]
            /\ ~rnIn.collapsible =>
                   /\ rnHtml = renderAdmonitionHtml(OpenFlipped(rnIn), RnInner)
                   /\ rnDom = buildCalloutContainer(OpenFlipped(rnIn))

\* both renderers ran on a non-collapsible, open block whose title needs
\* escaping
C10_Witness ==
    /\ BothRendered
    /\ ~rnIn.collapsible
    /\ rnIn.open
    /\ rnIn.title = Str(<<"<", "&", DQ, ">">>)

\* both renderers ran on a collapsible, closed block without a title
C10_WitnessNoTitle ==
    /\ BothRendered
    /\ rnIn.collapsible
    /\ ~rnIn.open
    /\ rnIn.title = Null


(***************************************************************************)
(* What a call of the block rule leaves in the parser state.               *)
(***************************************************************************)
\* the number of lines the parser sees: a last line of spaces and tabs only,
\* which no newline ends, is not one of them
MdLineMax ==
    IF MdWsOnly(Len(mdIn.lines) - 1) THEN Len(mdIn.lines) - 1 ELSE Len(mdIn.lines)

\* C11: whenever the block rule succeeds in normal mode at startLine it has
\* pushed exactly one mkdocs_admonition token whose map is [startLine, e) and
\* set state.line to the same e, with startLine + 1 < e <= endLine; whenever
\* it returns false it has pushed no token and left state.line as it was.
C11_RuleFrame ==
    MdRuleDone =>
        /\ (~mdIn.silent /\ mdRuleOut.ok) =>
               /\ Len(mdRuleOut.tokens) = 1
               /\ mdRuleOut.tokens[1].type = "mkdocs_admonition"
               /\ mdRuleOut.tokens[1].map[1] = mdIn.startLine
               /\ mdRuleOut.tokens[1].map[2] = mdRuleOut.line
               /\ mdIn.startLine + 1 < mdRuleOut.line
               /\ mdRuleOut.line <= MdLineMax
               /\ MdIsHeader(mdIn.startLine)
               /\ \A i \in (mdIn.startLine + 1)..(mdRuleOut.line - 1) :
                      MdWsOnly(i) \/ MdCols4(i)
               /\ mdRuleOut.line < MdLineMax =>
                      ~MdWsOnly(mdRuleOut.line) /\ ~MdCols4(mdRuleOut.line)
        /\ ~mdRuleOut.ok =>
               /\ mdRuleOut.tokens = << >>
               /\ mdRuleOut.line = MdLineBefore

\* the rule succeeded on the first line and stopped at a line of plain text,
\* before the end of the document
C11_Witness ==
    /\ MdRuleDone /\ ~mdIn.silent
    /\ mdIn.startLine = 0
    /\ mdRuleOut.ok
    /\ mdRuleOut.line = 2
    /\ Len(mdIn.lines) = 3
    /\ MdLine(2) = <<"x">>

\* the rule succeeded on the second line of a document
C11_WitnessLater ==
    /\ MdRuleDone /\ ~mdIn.silent
    /\ mdIn.startLine = 1
    /\ mdRuleOut.ok
    /\ mdRuleOut.line = 3

\* the rule was offered a line past the first one and returned false
C11_WitnessRejected ==
    /\ MdRuleDone /\ ~mdIn.silent
    /\ mdIn.startLine = 1
    /\ ~mdRuleOut.ok


(***************************************************************************)
(* Probe of both content extractors on one line buffer: the header is line *)
(* 0, the extraction starts at line 1, the base indent is 0 and the upper  *)
(* bound is the end of the text.                                           *)
(***************************************************************************)
MaxCmpLines == 3

CmpLineKinds == {
    << >>,                      \* blank
    <<"x">>,                    \* not indented
    <<SP, SP, "x">>,            \* two spaces
    SP4 \o <<"x">>,             \* four spaces
    SP4 \o <<SP, "x">>,         \* five spaces
    <<TAB, "x">>,               \* one tab
    <<TAB, TAB, "x">>,          \* two tabs
    <<SP, TAB, "x">>,           \* a space and a tab
    <<SP, SP, TAB, "x">>,       \* two spaces and a tab
    <<SP, SP, SP, TAB, "x">>,   \* three spaces and a tab
    SP4 \o <<TAB, "x">>,        \* four spaces and a tab
    <<TAB, SP, "x">>,           \* a tab and a space
    <<SP, SP>>,                 \* white space only, two spaces
    SP4,                        \* white space only, four spaces
    <<TAB>> }                   \* white space only, one tab
CmpInputs ==
    { [lines |-> <<NoteHeader>> \o body, options |-> [endOnDoubleBlank |-> b]] :
        body \in SeqsUpTo(CmpLineKinds, MaxCmpLines), b \in BOOLEAN }

InitCompare ==
    /\ HeaderIdle /\ ExtractIdle /\ LiveIdle /\ MdIdle /\ RenderIdle /\ EditorIdle
    /\ cmpIn \in CmpInputs
    /\ cmpLines = Pending
    /\ cmpMd = Pending

CmpOthers == << hdrVars, exVars, lpVars, mdVars, rnVars, edVars >>

\* extractContentFromLines(lines, line + 1, options)
CmpLinesCall ==
    /\ cmpLines = Pending
    /\ cmpLines' = extractContentFromLines(cmpIn.lines, 1, cmpIn.options)
    /\ UNCHANGED << cmpIn, cmpMd, CmpOthers >>

\* extractContent(state, startLine + 1, endLine) on the block state of the
\* same text
CmpMdCall ==
    /\ cmpMd = Pending
    /\ \E state \in { NewStateBlock(JoinLines(cmpIn.lines)) } :
           cmpMd' = extractContent(state, 1, state.lineMax)
    /\ UNCHANGED << cmpIn, cmpLines, CmpOthers >>

NextCompare == CmpLinesCall \/ CmpMdCall

SpecCompare == InitCompare /\ [][NextCompare]_vars


CmpDone == cmpIn # << >> /\ cmpLines # Pending /\ cmpMd # Pending
CmpLine(j) == cmpIn.lines[j + 1]
CmpLineCount == Len(cmpIn.lines)
CmpWsOnly(j) == \A c \in 1..Len(CmpLine(j)) : CmpLine(j)[c] \in { SP, TAB }
\* the shortest runs of leading white space that are 4 columns wide
FourColumns == { <<TAB>>, <<SP, TAB>>, <<SP, SP, TAB>>, <<SP, SP, SP, TAB>>, SP4 }
CmpCols4(j) == \E p \in FourColumns : StartsWith(CmpLine(j), p)
\* line j without its first 4 columns of white space
CmpStripped(j) ==
    LET p == CHOOSE q \in FourColumns : StartsWith(CmpLine(j), q)
    IN  SubSeq(CmpLine(j), Len(p) + 1, Len(CmpLine(j)))
CmpExpectedEntry(j) == IF CmpWsOnly(j) THEN << >> ELSE CmpStripped(j)

\* C12: in both content extractors, a line that is not blank is accepted iff
\* its indentation is at least 4 columns (a tab alone is enough), an accepted
\* line is appended with exactly 4 columns of leading white space removed,
\* and a line with less indentation stops the scan without being consumed.
C12_IndentRule ==
    (CmpDone /\ CmpLineCount >= 2) =>
        /\ ~CmpWsOnly(1) => (cmpLines.isNull <=> ~CmpCols4(1))
        /\ ~CmpWsOnly(1) => (cmpMd.isNull <=> ~CmpCols4(1))
        /\ ~cmpLines.isNull =>
               /\ \A j \in 1..(cmpLines.endLine - 1) :
                      ~CmpWsOnly(j) =>
                          /\ CmpCols4(j)
                          /\ cmpLines.contentLines[j] = CmpStripped(j)
               /\ (cmpLines.endLine < CmpLineCount /\ ~CmpWsOnly(cmpLines.endLine))
                      => ~CmpCols4(cmpLines.endLine)
        /\ ~cmpMd.isNull =>
               /\ \A j \in 1..(cmpMd.endLine - 1) : ~CmpWsOnly(j) => CmpCols4(j)
               /\ cmpMd.content =
                      JoinLines([j \in 1..(cmpMd.endLine - 1) |-> CmpExpectedEntry(j)])
               /\ (cmpMd.endLine < CmpLineCount /\ ~CmpWsOnly(cmpMd.endLine))
                      => ~CmpCols4(cmpMd.endLine)

\* a body line of one space and one tab, 4 columns of indentation: the
\* line-based extractor does not accept it, extractContent accepts it and
\* removes the space only
C12_MixedIndent ==
    /\ CmpDone
    /\ cmpIn.lines = << NoteHeader, <<SP, TAB, "x">> >>
    /\ cmpLines.isNull
    /\ ~cmpMd.isNull
    /\ cmpMd.content = <<TAB, "x">>
    /\ cmpMd.endLine = 2

\* C15: with base indent 0, the whole document as upper bound and double-blank
\* termination disabled, extractContent and extractContentFromLines return
\* the same outcome on every line buffer: both null, or both a block with the
\* same endLine and the same content lines.
C15_SameOutcome ==
    (CmpDone /\ ~cmpIn.options.endOnDoubleBlank) =>
        /\ cmpLines.isNull <=> cmpMd.isNull
        /\ ~cmpLines.isNull =>
               /\ cmpLines.endLine = cmpMd.endLine
               /\ JoinLines(cmpLines.contentLines) = cmpMd.content

\* an indented line, a line of two spaces, another indented line: the
\* line-based extractor stops at the line of two spaces, extractContent takes
\* it as a blank line and goes on
C15_WhitespaceLine ==
    /\ CmpDone /\ ~cmpIn.options.endOnDoubleBlank
    /\ cmpIn.lines = << NoteHeader, SP4 \o <<"x">>, <<SP, SP>>, SP4 \o <<"x">> >>
    /\ cmpLines = [isNull |-> FALSE, contentLines |-> << <<"x">> >>, endLine |-> 2]
    /\ cmpMd = [isNull |-> FALSE, content |-> <<"x", LF, LF, "x">>, endLine |-> 4]


(***************************************************************************)
(* The shape of a block returned by extractContentFromLines.               *)
(***************************************************************************)
ExProbedDone == ExProbed /\ Extracted
\* what line i contributes to the content: nothing but its own text, without
\* its leading tab or its four leading spaces
ExExpectedEntry(i) == IF ExIsBlank(i) THEN << >> ELSE ExStripped(i)
C13_ResultShape ==
    (ExProbedDone /\ ~exOut.isNull) =>
        /\ exIn.startLine < exOut.endLine
        /\ exOut.endLine <= Len(exIn.lines)
        /\ Len(exOut.contentLines) = exOut.endLine - exIn.startLine
        /\ \A i \in 0..(exOut.endLine - exIn.startLine - 1) :
               /\ ExIsBlank(exIn.startLine + i) \/ ExIsIndented(exIn.startLine + i)
               /\ exOut.contentLines[i + 1] = ExExpectedEntry(exIn.startLine + i)
        /\ \E i \in exIn.startLine..(exOut.endLine - 1) : ExIsIndented(i)
        /\ exOut.endLine < Len(exIn.lines) =>
               \/ ~ExIsBlank(exOut.endLine) /\ ~ExIsIndented(exOut.endLine)
               \/ /\ exIn.options.endOnDoubleBlank
                  /\ ExIsBlank(exOut.endLine)
                  /\ exOut.endLine - 1 >= exIn.startLine
                  /\ ExIsBlank(exOut.endLine - 1)

\* C13: for every line buffer, start index and options, a block returned by
\* extractContentFromLines has startLine < endLine <= number of lines;
\* contentLines has exactly endLine - startLine entries, entry i derived only
\* from line startLine + i (the empty string for a blank line), so the header
\* line at startLine - 1 is never included; endLine is one past the last
\* consumed line; and the call leaves the line buffer as it was.
C13_ExtractorResult ==
    /\ []C13_ResultShape
    /\ [][exIn' = exIn]_vars

\* a block that starts with a blank line at startLine 2 and stops at a line
\* that is not indented, before the end of the buffer
C13_Witness ==
    /\ ExProbedDone
    /\ exIn.startLine = 2
    /\ Len(exIn.lines) = 5
    /\ ExIsBlank(2)
    /\ ExLine(3) = SP4 \o <<SP, "x">>
    /\ ExLine(4) = <<"x">>
    /\ ~exOut.isNull
    /\ exOut.endLine = 4
    /\ exOut.contentLines = << << >>, <<SP, "x">> >>


(***************************************************************************)
(* The decoration state field of livePreviewExtension: created from the    *)
(* editor state, then updated once per transaction.                        *)
(***************************************************************************)
\* buildDecorations as a function of the document, the selection and the
\* options: the while loop, from 0-based line with the ranges added so far
RECURSIVE BuildFrom(_, _, _, _, _)
BuildFrom(lines, ranges, options, line, builder) ==
    IF ~(line < Len(lines))
    THEN builder
    ELSE CHOOSE set \in
           { BuildFrom(lines, ranges, options, step.next,
                       IF step.kind = "emit" THEN Append(builder, step.range)
                                             ELSE builder) :
               step \in { ScanStep(lines, ranges, options, line) } } : TRUE
buildDecorations(lines, ranges, options) ==
    IF ~options.enabled THEN << >> ELSE BuildFrom(lines, ranges, options, 0, << >>)

\* update: (deco, tr) => tr.docChanged || tr.selection ? buildDecorations(tr.state) : deco
FieldUpdateDocOnly(deco, docChanged, selectionSet, doc, sel, options) ==
    IF docChanged THEN buildDecorations(doc, sel, options) ELSE deco
FieldUpdate(deco, docChanged, selectionSet, doc, sel, options) ==
    IF docChanged \/ selectionSet THEN buildDecorations(doc, sel, options) ELSE deco

MaxEdLines == 3
EdLineKinds == { TipHeader, SP4 \o <<"x">>, <<"x">> }
EdDocs == UNION { [1..n -> EdLineKinds] : n \in 1..MaxEdLines }
\* a selection of the document: a cursor at the start of a line, or the whole
\* document selected
EdSelections(lines) ==
    { << [from |-> DocLineFrom(lines, n), to |-> DocLineFrom(lines, n)] >> :
        n \in 1..Len(lines) }
    \cup
    { << [from |-> 0, to |-> DocLineTo(lines, Len(lines))] >> }
\* the documents one edit away: a line retyped, a line deleted, a line inserted
EdEdits(lines) ==
    ({ [lines EXCEPT ![n] = text] : n \in 1..Len(lines), text \in EdLineKinds } \ { lines })
    \cup
    { SubSeq(lines, 1, n - 1) \o SubSeq(lines, n + 1, Len(lines)) :
        n \in { k \in 1..Len(lines) : Len(lines) > 1 } }
    \cup
    { SubSeq(lines, 1, n) \o << text >> \o SubSeq(lines, n + 1, Len(lines)) :
        n \in { k \in 0..Len(lines) : Len(lines) < MaxEdLines }, text \in EdLineKinds }

\* create: (state) => buildDecorations(state, app, parent, getOptions)
InitEditor ==
    /\ HeaderIdle /\ ExtractIdle /\ LiveIdle /\ MdIdle /\ RenderIdle /\ CompareIdle
    /\ edDoc \in EdDocs
    /\ edSel \in EdSelections(edDoc)
    /\ edOpts \in LpOptions
    /\ edField = buildDecorations(edDoc, edSel, edOpts)
    /\ edLast = "create"

EdOthers == << hdrVars, exVars, lpVars, mdVars, rnVars, cmpVars >>

\* a transaction that changes the document; the selection is mapped through
\* the change to some selection of the new document
EdChangeDoc ==
    /\ edLast # "idle"
    /\ \E doc \in EdEdits(edDoc) : \E sel \in EdSelections(doc) :
           /\ edDoc' = doc
           /\ edSel' = sel
           /\ edField' = FieldUpdate(edField, TRUE, FALSE, doc, sel, edOpts)
    /\ edLast' = "doc"
    /\ UNCHANGED << edOpts, EdOthers >>

\* a transaction that sets a selection and leaves the document alone, as the
\* widget's mousedown handler dispatches
EdSetSelection ==
    /\ edLast # "idle"
    /\ \E sel \in EdSelections(edDoc) :
           /\ edSel' = sel
           /\ edField' = FieldUpdate(edField, FALSE, TRUE, edDoc, sel, edOpts)
    /\ edLast' = "selection"
    /\ UNCHANGED << edDoc, edOpts, EdOthers >>

\* a transaction that changes the document and sets a selection
EdChangeDocAndSelect ==
    /\ edLast # "idle"
    /\ \E doc \in EdEdits(edDoc) : \E sel \in EdSelections(doc) :
           /\ edDoc' = doc
           /\ edSel' = sel
           /\ edField' = FieldUpdate(edField, TRUE, TRUE, doc, sel, edOpts)
    /\ edLast' = "both"
    /\ UNCHANGED << edOpts, EdOthers >>

\* a transaction that does neither (effects or annotations only)
EdOther ==
    /\ edLast # "idle"
    /\ edField' = FieldUpdate(edField, FALSE, FALSE, edDoc, edSel, edOpts)
    /\ edLast' = "other"
    /\ UNCHANGED << edDoc, edSel, edOpts, EdOthers >>

NextEditor ==
    \/ EdChangeDoc
    \/ EdSetSelection
    \/ EdChangeDocAndSelect
    \/ EdOther

SpecEditor == InitEditor /\ [][NextEditor]_vars

EdStarted == edLast # "idle"
EdFresh == EdStarted => edField = buildDecorations(edDoc, edSel, edOpts)
EdStep ==
    /\ edLast' \in { "doc", "selection", "both" } =>
           edField' = buildDecorations(edDoc', edSel', edOpts')
    /\ edLast' = "other" => edField' = edField
    /\ edOpts' = edOpts

\* C14: with the options held fixed, after any sequence of editor
\* transactions the stored decoration set equals what buildDecorations
\* computes from scratch on the current document and selection: a transaction
\* that changes the document or sets a selection replaces the stored set by a
\* fresh computation, and a transaction that does neither leaves it as it was.
C14_FieldTracksState ==
    /\ []EdFresh
    /\ [][EdStep]_vars

\* after a selection transaction moved the cursor out of the one block of the
\* document, the stored set holds that block's range
C14_Witness ==
    /\ edLast = "selection"
    /\ edDoc = << TipHeader, SP4 \o <<"x">>, <<"x">> >>
    /\ edSel = << [from |-> 14, to |-> 14] >>
    /\ edOpts.enabled
    /\ Len(edField) = 1
    /\ edField[1].from = 0
    /\ edField[1].to = 13

\* a transaction that did neither, with a range in the stored set
C14_WitnessOther ==
    /\ edLast = "other"
    /\ Len(edField) = 1


(***************************************************************************)
(* The rule in silent mode, as the paragraph rule calls it to decide       *)
(* whether a line ends the paragraph.                                      *)
(***************************************************************************)
\* the same call in normal mode
MdNormalCall ==
    CHOOSE res \in
        { mkdocsAdmonitionRule(state, mdIn.startLine, state.lineMax, FALSE) :
            state \in { [NewStateBlock(mdIn.src) EXCEPT !.line = mdIn.startLine] } } : TRUE
MdPlainAboveBarren ==
    /\ mdIn.nest = << >>
    /\ Len(mdIn.lines) >= 2
    /\ MdLine(0) = <<"x">>
    /\ MdIsHeader(1)
    /\ ~MdHasBody(1)

\* C16: the rule in silent mode returns true exactly when the same call in
\* normal mode would succeed, so a header line with no indented body never
\* ends the paragraph above it: the paragraph goes on over the header line.
C16_SilentMatchesNormal ==
    /\ (MdRuleDone /\ mdIn.silent) => (mdRuleOut.ok <=> MdNormalCall.ok)
    /\ (MdRendered /\ MdPlainAboveBarren) =>
           /\ mdRenderOut.nodes[1].type = "paragraph"
           /\ Len(mdRenderOut.nodes[1].rawLines) >= 2

\* a header with no body, offered in silent mode, is accepted
C16_SilentAcceptsBarren ==
    /\ MdRuleDone /\ mdIn.silent
    /\ mdIn.lines = << <<"x">>, NoteHeader, <<"x">> >>
    /\ mdIn.startLine = 1
    /\ mdRuleOut.ok
    /\ ~MdNormalCall.ok

\* the paragraph above a header with no body ends at the header
C16_ParagraphCut ==
    /\ MdRendered
    /\ mdIn.lines = << <<"x">>, NoteHeader, <<"x">> >>
    /\ Len(mdRenderOut.nodes) = 2
    /\ mdRenderOut.nodes[1] = [type |-> "paragraph", rawLines |-> << <<"x">> >>]
    /\ mdRenderOut.nodes[2].type = "paragraph"

=============================================================================
